---- MODULE Spec2Model ----
(***************************************************************************)
(* Model of the beer-song range widget (src/src/lib.rs): a Model of two    *)
(* TextBuffer<u32> fields, start and end, driven by the four messages of   *)
(* `update`.  Text is a sequence of one-character strings.  A value parsed *)
(* from text is a u32 kept as two 16-bit limbs, because it can exceed the  *)
(* range of TLC's 32-bit signed integers before it is compared or clamped; *)
(* the parsed fields of the buffers are plain integers.                    *)
(***************************************************************************)
EXTENDS Integers, Sequences, FiniteSets

VARIABLES start, end, last, prev

vars == <<start, end, last, prev>>

(* ------------------------------ u32 ----------------------------------- *)

\* One limb of a u32 holds 16 bits.
LimbBase == 65536

\* The largest verse number, the literal 99 of the clamps and overwrites.
MaxVerse == 99

U32(hi, lo) == [hi |-> hi, lo |-> lo]

U32Zero == U32(0, 0)

\* The values of the type u32
U32Values == [hi : 0..(LimbBase - 1), lo : 0..(LimbBase - 1)]

\* start >= &prev_end, for a parsed u32 and a stored field value
U32Ge(u, n) ==
    \/ u.hi > n \div LimbBase
    \/ u.hi = n \div LimbBase /\ u.lo >= n % LimbBase

\* end <= &new_start
U32Le(u, n) ==
    \/ u.hi < n \div LimbBase
    \/ u.hi = n \div LimbBase /\ u.lo <= n % LimbBase

\* self.parsed == parsed
U32Eq(u, n) == u.hi = n \div LimbBase /\ u.lo = n % LimbBase

\* min with the bound taken one too high.
U32MinOff(u, n) == IF U32Le(u, n + 1) THEN u.hi * LimbBase + u.lo ELSE n + 1

\* std::cmp::min(*x, 99)
U32Min(u, n) == IF U32Le(u, n) THEN u.hi * LimbBase + u.lo ELSE n

\* u32::checked_mul by a small factor
CheckedMul(u, k) ==
    LET lo == u.lo * k
        hi == u.hi * k + lo \div LimbBase
    IN  IF hi >= LimbBase THEN [ok |-> FALSE, val |-> U32Zero]
        ELSE [ok |-> TRUE, val |-> U32(hi, lo % LimbBase)]

\* u32::checked_add of a digit
CheckedAdd(u, d) ==
    LET lo == u.lo + d
        hi == u.hi + lo \div LimbBase
    IN  IF hi >= LimbBase THEN [ok |-> FALSE, val |-> U32Zero]
        ELSE [ok |-> TRUE, val |-> U32(hi, lo % LimbBase)]

(* ------------------------------ text ---------------------------------- *)

Digits == <<"0", "1", "2", "3", "4", "5", "6", "7", "8", "9">>

IsDigit(c) == \E i \in 1..Len(Digits) : Digits[i] = c

DigitVal(c) == (CHOOSE i \in 1..Len(Digits) : Digits[i] = c) - 1

ParseErr == [ok |-> FALSE, val |-> U32Zero]

\* The digit loop of <u32 as FromStr>: Err on a non-digit or on overflow.
RECURSIVE FromDigits(_, _)
FromDigits(ds, acc) ==
    IF ds = <<>> THEN [ok |-> TRUE, val |-> acc]
    ELSE IF ~IsDigit(Head(ds)) THEN ParseErr
    ELSE LET m == CheckedMul(acc, 10) IN
         IF ~m.ok THEN ParseErr
         ELSE LET a == CheckedAdd(m.val, DigitVal(Head(ds))) IN
              IF ~a.ok THEN ParseErr
              ELSE FromDigits(Tail(ds), a.val)

\* self.raw.parse() at T = u32: empty text, a lone sign, a minus sign, any
\* non-digit and any value above u32::MAX are errors; one leading "+" is
\* accepted.
Parse(raw) ==
    IF raw = <<>> THEN ParseErr
    ELSE IF Len(raw) = 1 /\ raw[1] \in {"+", "-"} THEN ParseErr
    ELSE IF raw[1] = "+" THEN FromDigits(Tail(raw), U32Zero)
    ELSE FromDigits(raw, U32Zero)

\* parsed.to_string() of a u32: decimal, no sign, no leading zeros.
RECURSIVE ToString(_)
ToString(n) ==
    IF n < 10 THEN <<Digits[n + 1]>>
    ELSE ToString(n \div 10) \o <<Digits[(n % 10) + 1]>>

(* --------------------------- TextBuffer<u32> --------------------------- *)

TextBuffer(raw, parsed) == [raw |-> raw, parsed |-> parsed]

\* Default: String::default() and u32::default()
TextBufferDefault == TextBuffer(<<>>, 0)

Some(v) == [some |-> TRUE, val |-> v]

None == [some |-> FALSE, val |-> 0]

\* update dropping the new text.
TextBuffer_updateKeep(self, raw) == self

\* TextBuffer::update
TextBuffer_update(self, raw) == [self EXCEPT !.raw = raw]

\* TextBuffer::overwrite
TextBuffer_overwrite(self, parsed) == TextBuffer(ToString(parsed), parsed)

\* validate rewriting the text from the value it commits.
TextBuffer_validateRewrite(self, validate) ==
    LET p == Parse(self.raw) IN
    IF p.ok
    THEN LET v == validate[p.val] IN
         IF v.some THEN TextBuffer(ToString(v.val), v.val) ELSE self
    ELSE self

\* TextBuffer::validate; the closure is a function on the u32 values
TextBuffer_validate(self, validate) ==
    LET p == Parse(self.raw) IN
    IF p.ok
    THEN LET v == validate[p.val] IN
         IF v.some THEN [self EXCEPT !.parsed = v.val] ELSE self
    ELSE self

\* TextBuffer::is_valid
TextBuffer_is_valid(self) ==
    LET p == Parse(self.raw) IN
    IF p.ok THEN U32Eq(p.val, self.parsed) ELSE FALSE

(* ------------------------------ update -------------------------------- *)

\* The start closure with a strict comparison.
StartClosureStrict(s, bound) ==
    IF U32Ge(s, bound + 1) THEN Some(U32Min(s, MaxVerse)) ELSE None

\* |start| if start >= &bound { Some(min(*start, 99)) } else { None }
StartClosure(s, bound) ==
    IF U32Ge(s, bound) THEN Some(U32Min(s, MaxVerse)) ELSE None

\* The end closure with a strict comparison.
EndClosureStrict(e, bound) ==
    IF bound > 0 /\ U32Le(e, bound - 1) THEN Some(U32Min(e, MaxVerse)) ELSE None

\* |end| if end <= &bound { Some(min(*end, 99)) } else { None }
EndClosure(e, bound) ==
    IF U32Le(e, bound) THEN Some(U32Min(e, MaxVerse)) ELSE None

Model(s, e) == [start |-> s, end |-> e]

\* Model::default()
ModelDefault == Model(TextBufferDefault, TextBufferDefault)

\* UpdateStart with a failed parse forcing start.parsed to end.parsed.
OnUpdateStartForce(model, raw) ==
    LET s0 == TextBuffer_update(model.start, raw)
        prev_end == model.end.parsed
        s1 == IF Parse(raw).ok
              THEN TextBuffer_validate(s0, [x \in U32Values |-> StartClosure(x, prev_end)])
              ELSE [s0 EXCEPT !.parsed = prev_end]
        new_start == s1.parsed
        e1 == TextBuffer_validate(model.end, [x \in U32Values |-> EndClosure(x, new_start)])
    IN  Model(s1, e1)

\* UpdateStart with end re-validated against the start of before the edit.
OnUpdateStartStale(model, raw) ==
    LET s0 == TextBuffer_update(model.start, raw)
        prev_end == model.end.parsed
        s1 == TextBuffer_validate(s0, [x \in U32Values |-> StartClosure(x, prev_end)])
        old_start == model.start.parsed
        e1 == TextBuffer_validate(model.end, [x \in U32Values |-> EndClosure(x, old_start)])
    IN  Model(s1, e1)

\* UpdateStart with the second pass committing the end text unclamped and
\* unordered.
OnUpdateStartLoose(model, raw) ==
    LET s0 == TextBuffer_update(model.start, raw)
        prev_end == model.end.parsed
        s1 == TextBuffer_validate(s0, [x \in U32Values |-> StartClosure(x, prev_end)])
        e1 == TextBuffer_validate(model.end, [x \in U32Values |-> Some(U32Min(x, s1.parsed))])
    IN  Model(s1, e1)

\* UpdateStart without the second pass over end.
OnUpdateStartNoSecond(model, raw) ==
    LET s0 == TextBuffer_update(model.start, raw)
        prev_end == model.end.parsed
        s1 == TextBuffer_validate(s0, [x \in U32Values |-> StartClosure(x, prev_end)])
    IN  Model(s1, model.end)

\* Msg::UpdateStart(raw)
OnUpdateStart(model, raw) ==
    LET s0 == TextBuffer_update(model.start, raw)
        prev_end == model.end.parsed
        s1 == TextBuffer_validate(s0, [x \in U32Values |-> StartClosure(x, prev_end)])
        new_start == s1.parsed
        e1 == TextBuffer_validate(model.end, [x \in U32Values |-> EndClosure(x, new_start)])
    IN  Model(s1, e1)

\* UpdateEnd with a failed parse forcing end.parsed to start.parsed.
OnUpdateEndForce(model, raw) ==
    LET e0 == TextBuffer_update(model.end, raw)
        prev_start == model.start.parsed
        e1 == IF Parse(raw).ok
              THEN TextBuffer_validate(e0, [x \in U32Values |-> EndClosure(x, prev_start)])
              ELSE [e0 EXCEPT !.parsed = prev_start]
        new_end == e1.parsed
        s1 == TextBuffer_validate(model.start, [x \in U32Values |-> StartClosure(x, new_end)])
    IN  Model(s1, e1)

\* UpdateEnd with start re-validated against the end of before the edit.
OnUpdateEndStale(model, raw) ==
    LET e0 == TextBuffer_update(model.end, raw)
        prev_start == model.start.parsed
        e1 == TextBuffer_validate(e0, [x \in U32Values |-> EndClosure(x, prev_start)])
        old_end == model.end.parsed
        s1 == TextBuffer_validate(model.start, [x \in U32Values |-> StartClosure(x, old_end)])
    IN  Model(s1, e1)

\* Msg::UpdateEnd(raw)
OnUpdateEnd(model, raw) ==
    LET e0 == TextBuffer_update(model.end, raw)
        prev_start == model.start.parsed
        e1 == TextBuffer_validate(e0, [x \in U32Values |-> EndClosure(x, prev_start)])
        new_end == e1.parsed
        s1 == TextBuffer_validate(model.start, [x \in U32Values |-> StartClosure(x, new_end)])
    IN  Model(s1, e1)

\* FullSong with the two values exchanged.
OnFullSongSwapped(model) ==
    Model(TextBuffer_overwrite(model.start, 0),
          TextBuffer_overwrite(model.end, MaxVerse))

\* Msg::FullSong
OnFullSong(model) ==
    Model(TextBuffer_overwrite(model.start, MaxVerse),
          TextBuffer_overwrite(model.end, 0))

\* NextVerse wrapping to the full song instead of the top verse.
OnNextVerseWrapFull(model) ==
    IF model.end.parsed = 0
    THEN Model(TextBuffer_overwrite(model.start, MaxVerse),
               TextBuffer_overwrite(model.end, 0))
    ELSE Model(model.start,
               TextBuffer_overwrite(model.end, model.end.parsed - 1))

\* NextVerse rewriting the start field too when it steps.
OnNextVerseRewriteStart(model) ==
    IF model.end.parsed = 0
    THEN Model(TextBuffer_overwrite(model.start, MaxVerse),
               TextBuffer_overwrite(model.end, MaxVerse))
    ELSE Model(TextBuffer_overwrite(model.start, model.start.parsed),
               TextBuffer_overwrite(model.end, model.end.parsed - 1))

\* NextVerse wrapping one verse early.
OnNextVerseWrapEarly(model) ==
    IF model.end.parsed <= 1
    THEN Model(TextBuffer_overwrite(model.start, MaxVerse),
               TextBuffer_overwrite(model.end, MaxVerse))
    ELSE Model(model.start,
               TextBuffer_overwrite(model.end, model.end.parsed - 1))

\* Msg::NextVerse
OnNextVerse(model) ==
    IF model.end.parsed = 0
    THEN Model(TextBuffer_overwrite(model.start, MaxVerse),
               TextBuffer_overwrite(model.end, MaxVerse))
    ELSE Model(model.start,
               TextBuffer_overwrite(model.end, model.end.parsed - 1))

(* --------------------------- state machine ---------------------------- *)

\* Texts typed into the two fields: not a number, numbers below the clamp,
\* a number above it, a signed number, u32::MAX and the number above it.
RawInputs ==
    { <<"a", "b", "c">>,
      <<"1", "0">>,
      <<"3", "0">>,
      <<"4", "0">>,
      <<"5", "0">>,
      <<"1", "5", "0">>,
      <<"+", "5">>,
      <<"4", "2", "9", "4", "9", "6", "7", "2", "9", "5">>,
      <<"4", "2", "9", "4", "9", "6", "7", "2", "9", "6">> }

Here == Model(start, end)

\* One message handled by `update`; last and prev record the message and
\* the model it was applied to.
Step(op, raw, m) ==
    /\ start' = m.start
    /\ end' = m.end
    /\ last' = [op |-> op, raw |-> raw]
    /\ prev' = Here

UpdateStart(raw) == Step("UpdateStart", raw, OnUpdateStart(Here, raw))

UpdateEnd(raw) == Step("UpdateEnd", raw, OnUpdateEnd(Here, raw))

FullSong == Step("FullSong", <<>>, OnFullSong(Here))

\* NextVerse aborting where its subtraction would go below zero.
NextVerseAborting == end.parsed > 0 /\ Step("NextVerse", <<>>, OnNextVerse(Here))

NextVerse == Step("NextVerse", <<>>, OnNextVerse(Here))

Init ==
    /\ start = ModelDefault.start
    /\ end = ModelDefault.end
    /\ last = [op |-> "init", raw |-> <<>>]
    /\ prev = ModelDefault

Next ==
    \/ \E raw \in RawInputs : UpdateStart(raw)
    \/ \E raw \in RawInputs : UpdateEnd(raw)
    \/ FullSong
    \/ NextVerse

Spec == Init /\ [][Next]_vars

(* ----------------------------- properties ----------------------------- *)

\* What the properties say about a number read from text, stated on the
\* limbs directly: above the clamp, the value committed for it, and its order
\* against a field value (field values never exceed the clamp, RangeInvariant).
AboveClamp(u) == u.hi > 0 \/ u.lo > MaxVerse

Committed(u) == IF AboveClamp(u) THEN MaxVerse ELSE u.lo

AtLeast(u, n) == AboveClamp(u) \/ u.lo >= n

AtMost(u, n) == ~AboveClamp(u) /\ u.lo <= n

Txt99 == <<"9", "9">>

Txt0 == <<"0">>

TxtAbc == <<"a", "b", "c">>

Txt40 == <<"4", "0">>

Txt50 == <<"5", "0">>

Txt150 == <<"1", "5", "0">>

\* C1: in every reachable state 0 <= end.parsed <= start.parsed <= 99.
RangeInvariant ==
    /\ 0 <= end.parsed
    /\ end.parsed <= start.parsed
    /\ start.parsed <= MaxVerse

\* A start text above the clamp has just been committed over a non-zero end.
RangeInvariantWitness ==
    /\ last.op = "UpdateStart"
    /\ last.raw = Txt150
    /\ prev.end.parsed > 0
    /\ start.parsed = MaxVerse

\* C2: FullSong leaves start = {"99", 99} and end = {"0", 0}, whatever the
\* model was before.
FullSongResets ==
    last.op = "FullSong" =>
        /\ start = TextBuffer(Txt99, 99)
        /\ end = TextBuffer(Txt0, 0)

\* FullSong has been applied to a model with other texts and values.
FullSongResetsWitness ==
    /\ last.op = "FullSong"
    /\ prev.start.raw = TxtAbc
    /\ prev.start.parsed = 30
    /\ prev.end.raw = Txt40
    /\ prev.end.parsed = 10
    /\ start.parsed = 99
    /\ end.parsed = 0

\* C3: NextVerse applied with end.parsed = 0 overwrites start and end to 99,
\* text and value, whatever start was.
NextVerseWraps ==
    (last.op = "NextVerse" /\ prev.end.parsed = 0) =>
        /\ start = TextBuffer(Txt99, 99)
        /\ end = TextBuffer(Txt99, 99)

\* NextVerse has wrapped from (5, 0).
NextVerseWrapsWitness ==
    /\ last.op = "NextVerse"
    /\ prev.start.parsed = 5
    /\ prev.end.parsed = 0
    /\ start.parsed = 99
    /\ end.parsed = 99

\* C4: NextVerse applied with end.parsed = x > 0 sets end.parsed to x - 1 and
\* end.raw to the decimal text of x - 1, and leaves start.parsed and start.raw
\* as they were.
NextVerseSteps ==
    (last.op = "NextVerse" /\ prev.end.parsed > 0) =>
        /\ end.parsed = prev.end.parsed - 1
        /\ end.raw = ToString(prev.end.parsed - 1)
        /\ Len(end.raw) = (IF end.parsed < 10 THEN 1 ELSE 2)
        /\ TextBuffer_is_valid(end)
        /\ start = prev.start

\* NextVerse has stepped from (10, 3) to (10, 2), the start text not being the
\* decimal text of its value.
NextVerseStepsWitness ==
    /\ last.op = "NextVerse"
    /\ prev.start.parsed = 10
    /\ prev.end.parsed = 3
    /\ prev.start.raw = TxtAbc
    /\ start.parsed = 10
    /\ end.parsed = 2

\* C5: UpdateStart(raw) with raw parsing to s commits min(s, 99) to
\* start.parsed exactly when s >= the end.parsed of before the call, and
\* otherwise leaves start.parsed as it was.
StartCommitRule ==
    (last.op = "UpdateStart" /\ Parse(last.raw).ok) =>
        LET s == Parse(last.raw).val IN
        /\ (start.parsed = Committed(s)) <=> AtLeast(s, prev.end.parsed)
        /\ ~AtLeast(s, prev.end.parsed) => start.parsed = prev.start.parsed

\* "150" has been typed into start and committed as 99.
StartCommitRuleWitness ==
    /\ last.op = "UpdateStart"
    /\ last.raw = Txt150
    /\ prev.start.parsed = 30
    /\ prev.end.parsed = 10
    /\ start.parsed = 99

\* A start text below end.parsed has been rejected.
StartRejectWitness ==
    /\ last.op = "UpdateStart"
    /\ Parse(last.raw).ok
    /\ ~AtLeast(Parse(last.raw).val, prev.end.parsed)
    /\ start.parsed = prev.start.parsed

\* C6: UpdateEnd(raw) with raw parsing to e commits min(e, 99) to end.parsed
\* when e <= the start.parsed of before the call; when e is greater,
\* end.parsed keeps its value and end.raw is raw all the same.
EndCommitRule ==
    (last.op = "UpdateEnd" /\ Parse(last.raw).ok) =>
        LET e == Parse(last.raw).val IN
        IF AtMost(e, prev.start.parsed)
        THEN end.parsed = Committed(e)
        ELSE end.parsed = prev.end.parsed /\ end.raw = last.raw

\* "40" has been typed into end in (30, 10) with texts "30" and "10".
EndCommitRuleWitness ==
    /\ last.op = "UpdateEnd"
    /\ last.raw = Txt40
    /\ prev.start = TextBuffer(<<"3", "0">>, 30)
    /\ prev.end = TextBuffer(<<"1", "0">>, 10)
    /\ start.parsed = 30
    /\ end = TextBuffer(Txt40, 10)

\* C7 as stated: a text that fails to parse forces the edited field's parsed
\* value to the other field's parsed value.
ParseFailureForcesSibling ==
    /\ (last.op = "UpdateStart" /\ ~Parse(last.raw).ok) =>
           start.parsed = prev.end.parsed
    /\ (last.op = "UpdateEnd" /\ ~Parse(last.raw).ok) =>
           end.parsed = prev.start.parsed

\* C7 as amended: a text that fails to parse leaves the edited field's parsed
\* value as it was.
ParseFailureKeepsParsed ==
    /\ (last.op = "UpdateStart" /\ ~Parse(last.raw).ok) =>
           start.parsed = prev.start.parsed
    /\ (last.op = "UpdateEnd" /\ ~Parse(last.raw).ok) =>
           end.parsed = prev.end.parsed

\* "abc" has been typed into start in (30, 10): start.parsed is still 30.
ParseFailureKeepsParsedWitness ==
    /\ last.op = "UpdateStart"
    /\ last.raw = TxtAbc
    /\ prev.start.parsed = 30
    /\ prev.end.parsed = 10
    /\ start.parsed = 30
    /\ end.parsed = 10

\* C8: UpdateStart(raw) leaves start.raw = raw and UpdateEnd(raw) leaves
\* end.raw = raw, whether or not the parsed value was committed.
RawStoredVerbatim ==
    /\ last.op = "UpdateStart" => start.raw = last.raw
    /\ last.op = "UpdateEnd" => end.raw = last.raw

\* A text has been stored in start although its value was not committed.
RawStoredVerbatimWitness ==
    /\ last.op = "UpdateStart"
    /\ start.raw = last.raw
    /\ start.raw # prev.start.raw
    /\ ~TextBuffer_is_valid(start)
    /\ start.parsed = prev.start.parsed
    /\ start.parsed > 0

\* C9: in a text edit the edited field is resolved first against the other
\* field's parsed value of before the edit, then the other field's stored
\* text is validated against the edited field's new parsed value; so an end
\* text rejected for exceeding start is committed by a later UpdateStart that
\* raises start to it or above, and a rejected start text by a later
\* UpdateEnd that lowers end to it or below.
SecondPassRule ==
    /\ last.op = "UpdateStart" =>
        /\ end.raw = prev.end.raw
        /\ LET p == Parse(last.raw) IN
           IF p.ok /\ AtLeast(p.val, prev.end.parsed)
           THEN start.parsed = Committed(p.val)
           ELSE start.parsed = prev.start.parsed
        /\ LET q == Parse(prev.end.raw) IN
           IF q.ok /\ AtMost(q.val, start.parsed)
           THEN end.parsed = Committed(q.val)
           ELSE end.parsed = prev.end.parsed
    /\ last.op = "UpdateEnd" =>
        /\ start.raw = prev.start.raw
        /\ LET p == Parse(last.raw) IN
           IF p.ok /\ AtMost(p.val, prev.start.parsed)
           THEN end.parsed = Committed(p.val)
           ELSE end.parsed = prev.end.parsed
        /\ LET q == Parse(prev.start.raw) IN
           IF q.ok /\ AtLeast(q.val, end.parsed)
           THEN start.parsed = Committed(q.val)
           ELSE start.parsed = prev.start.parsed
    /\ LET p == Parse(last.raw)
           q == Parse(prev.end.raw)
       IN  ( /\ last.op = "UpdateStart"
             /\ p.ok
             /\ q.ok
             /\ ~AtMost(q.val, prev.start.parsed)
             /\ AtMost(q.val, Committed(p.val)) )
           => (end.parsed = q.val.lo /\ start.parsed = Committed(p.val))
    /\ LET p == Parse(last.raw)
           q == Parse(prev.start.raw)
       IN  ( /\ last.op = "UpdateEnd"
             /\ p.ok
             /\ q.ok
             /\ prev.start.parsed # Committed(q.val)
             /\ ~AboveClamp(q.val)
             /\ AtMost(p.val, q.val.lo) )
           => (start.parsed = q.val.lo /\ end.parsed = p.val.lo)

\* (30, 10) with the rejected end text "40", then "50" typed into start: the
\* model is (50, 40).
SecondPassRuleWitness ==
    /\ last.op = "UpdateStart"
    /\ last.raw = Txt50
    /\ prev.start.parsed = 30
    /\ prev.end = TextBuffer(Txt40, 10)
    /\ start.parsed = 50
    /\ end.parsed = 40

\* A rejected start text has been committed by an UpdateEnd lowering end.
SecondPassStartWitness ==
    /\ last.op = "UpdateEnd"
    /\ Parse(prev.start.raw).ok
    /\ start.parsed < prev.start.parsed
    /\ U32Eq(Parse(prev.start.raw).val, start.parsed)
    /\ end.parsed < prev.end.parsed

\* The parsed values of a model.
ParsedOf(m) == <<m.start.parsed, m.end.parsed>>

\* start.raw parses to the value start.parsed holds for it.
StartCommitted(m) ==
    /\ Parse(m.start.raw).ok
    /\ m.start.parsed = Committed(Parse(m.start.raw).val)

\* C10: where start.raw = r parses to a value already committed as
\* start.parsed, UpdateStart(r) applied once or twice leaves start.parsed and
\* end.parsed unchanged after each call.
CommittedStartIdempotent ==
    /\ StartCommitted(Here) =>
        LET once == OnUpdateStart(Here, start.raw)
            twice == OnUpdateStart(once, start.raw)
        IN  /\ ParsedOf(once) = ParsedOf(Here)
            /\ ParsedOf(twice) = ParsedOf(Here)
    /\ ( /\ last.op = "UpdateStart"
         /\ last.raw = prev.start.raw
         /\ StartCommitted(prev) )
       => (ParsedOf(Here) = ParsedOf(prev) /\ StartCommitted(Here))

\* UpdateStart has been applied with the text start already held committed,
\* above a non-zero end.
CommittedStartIdempotentWitness ==
    /\ last.op = "UpdateStart"
    /\ last.raw = prev.start.raw
    /\ StartCommitted(prev)
    /\ prev.end.parsed > 0
    /\ ParsedOf(Here) = ParsedOf(prev)

\* A model whose two parsed values are u32 values and whose texts are texts.
WellFormed(m) ==
    /\ m.start.parsed >= 0
    /\ m.end.parsed >= 0
    /\ Len(m.start.raw) >= 0
    /\ Len(m.end.raw) >= 0

\* C11: the four operations are total: in every reachable state each message
\* is enabled, for every text, and yields a successor model; NextVerse
\* subtracts only from a non-zero end.parsed, so no value leaves the u32
\* range.
OperationsTotal ==
    /\ \A raw \in RawInputs : WellFormed(OnUpdateStart(Here, raw))
    /\ \A raw \in RawInputs : WellFormed(OnUpdateEnd(Here, raw))
    /\ ENABLED FullSong
    /\ ENABLED NextVerse
    /\ WellFormed(Here)
    /\ last.op = "NextVerse" =>
        IF prev.end.parsed = 0
        THEN end.parsed = MaxVerse
        ELSE end.parsed = prev.end.parsed - 1 /\ end.parsed >= 0

\* NextVerse has stepped end.parsed down to 0 over an unparsable start text,
\* and is enabled again.
OperationsTotalWitness ==
    /\ last.op = "NextVerse"
    /\ prev.end.parsed = 1
    /\ end.parsed = 0
    /\ ~Parse(start.raw).ok
    /\ ENABLED NextVerse

\* C12 as stated: an edit whose text does not parse leaves start.parsed and
\* end.parsed both at their values of before the call.
UnparsableEditKeepsBoth ==
    (last.op \in {"UpdateStart", "UpdateEnd"} /\ ~Parse(last.raw).ok) =>
        ParsedOf(Here) = ParsedOf(prev)

\* C12 as amended: an edit whose text does not parse leaves the edited
\* field's parsed value as it was; UpdateStart leaves end.parsed as it was
\* too; UpdateEnd still validates the start text against end.parsed, which
\* commits a start text that was waiting at or above it and otherwise leaves
\* start.parsed as it was; the same edit repeated changes no parsed value.
UnparsableEditRule ==
    /\ (last.op = "UpdateStart" /\ ~Parse(last.raw).ok) =>
        /\ ParsedOf(Here) = ParsedOf(prev)
        /\ ParsedOf(OnUpdateStart(Here, last.raw)) = ParsedOf(Here)
    /\ (last.op = "UpdateEnd" /\ ~Parse(last.raw).ok) =>
        /\ end.parsed = prev.end.parsed
        /\ LET q == Parse(prev.start.raw) IN
           IF q.ok /\ AtLeast(q.val, prev.end.parsed)
           THEN start.parsed = Committed(q.val)
           ELSE start.parsed = prev.start.parsed
        /\ ParsedOf(OnUpdateEnd(Here, last.raw)) = ParsedOf(Here)

\* An unparsable text typed into end has committed a waiting start text.
UnparsableEditRuleWitness ==
    /\ last.op = "UpdateEnd"
    /\ ~Parse(last.raw).ok
    /\ start.parsed # prev.start.parsed
    /\ end.parsed = prev.end.parsed

\* An unparsable text typed into start has changed neither parsed value.
UnparsableStartWitness ==
    /\ last.op = "UpdateStart"
    /\ ~Parse(last.raw).ok
    /\ prev.end.parsed > 0
    /\ ParsedOf(Here) = ParsedOf(prev)

\* C13: every text edit is idempotent on the whole model: the same edit
\* applied again to the model it produced gives that model, texts and values.
EditIdempotent ==
    /\ last.op = "UpdateStart" => OnUpdateStart(Here, last.raw) = Here
    /\ last.op = "UpdateEnd" => OnUpdateEnd(Here, last.raw) = Here

\* An end edit whose second pass moved start is repeated without effect.
EditIdempotentWitness ==
    /\ last.op = "UpdateEnd"
    /\ Parse(last.raw).ok
    /\ start.parsed # prev.start.parsed
    /\ OnUpdateEnd(Here, last.raw) = Here

\* A start edit whose second pass moved end is repeated without effect.
EditIdempotentStartWitness ==
    /\ last.op = "UpdateStart"
    /\ end.parsed # prev.end.parsed
    /\ OnUpdateStart(Here, last.raw) = Here

\* n NextVerse messages in a row applied to m.
RECURSIVE Advance(_, _)
Advance(m, n) ==
    IF n = 0 THEN m
    ELSE LET m1 == OnNextVerse(m) IN
         IF m1 = m THEN m ELSE Advance(m1, n - 1)

\* Each of n NextVerse messages in a row lowers end.parsed by one and leaves
\* start alone.
RECURSIVE Descends(_, _)
Descends(m, n) ==
    IF n = 0 THEN TRUE
    ELSE LET m1 == OnNextVerse(m) IN
         /\ m1.end.parsed = m.end.parsed - 1
         /\ m1.start = m.start
         /\ Descends(m1, n - 1)

Top == Model(TextBuffer(Txt99, 99), TextBuffer(Txt99, 99))

\* C14: from any reachable state with end.parsed = k, k + 1 NextVerse
\* messages in a row end in start = end = {"99", 99}, end.parsed going down
\* by one on each of the first k; from there the next wrap comes after
\* exactly 100 more.
AdvanceReachesWrap ==
    /\ Descends(Here, end.parsed)
    /\ Advance(Here, end.parsed + 1) = Top
    /\ Here = Top =>
        /\ Descends(Here, MaxVerse)
        /\ Advance(Here, MaxVerse).end.parsed = 0
        /\ Advance(Here, MaxVerse + 1) = Top

\* NextVerse has wrapped from the end field {"0", 0} under a start of 30.
AdvanceReachesWrapWitness ==
    /\ last.op = "NextVerse"
    /\ prev.end = TextBuffer(Txt0, 0)
    /\ prev.start.parsed = 30
    /\ Here = Top

\* C15: in every reachable state, if end.raw parses to e with
\* e <= start.parsed, then end.parsed = e.
EndNeverPending ==
    LET q == Parse(end.raw) IN
    (q.ok /\ AtMost(q.val, start.parsed)) => end.parsed = q.val.lo

\* A start edit has raised start over a waiting end text, now committed.
EndNeverPendingWitness ==
    /\ last.op = "UpdateStart"
    /\ Parse(end.raw).ok
    /\ ~AtMost(Parse(end.raw).val, prev.start.parsed)
    /\ AtMost(Parse(end.raw).val, start.parsed)
    /\ end.parsed = Parse(end.raw).val.lo

\* C16: a text edit changes only its own field's text: UpdateStart leaves
\* end.raw and UpdateEnd leaves start.raw as they were, also when the second
\* pass changes the sibling's parsed value.
SiblingRawKept ==
    /\ last.op = "UpdateStart" => end.raw = prev.end.raw
    /\ last.op = "UpdateEnd" => start.raw = prev.start.raw

\* The second pass of a start edit has changed end.parsed under a text of
\* end that is not the decimal text of the value.
SiblingRawKeptWitness ==
    /\ last.op = "UpdateStart"
    /\ end.parsed # prev.end.parsed
    /\ end.raw = prev.end.raw
    /\ end.raw # ToString(end.parsed)

\* The second pass of an end edit has changed start.parsed.
SiblingRawKeptEndWitness ==
    /\ last.op = "UpdateEnd"
    /\ start.parsed # prev.start.parsed
    /\ start.raw = prev.start.raw

====
